---- MODULE Spec2Model ----
(***************************************************************************)
(* Request handling of a MinBFT replica (core/request.go): the request     *)
(* processor and applier, the request executor and operation executor,     *)
(* the per-client request sequence lifecycle and the request timers.       *)
(***************************************************************************)
EXTENDS Integers, Sequences, FiniteSets, TLC

\* ------------------------------------------------------------------ bounds
MaxSeq == 2
NumProcs == 2
MaxView == 1
NumExecs == 2
MaxArm == 2

\* ------------------------------------------------ replica configuration
\* Total number of replicas and this replica's ID (makeRequestApplier(id, n, ...)).
n == 3
id == 1

\* Two clients. The request sequence state, the timer and the Replies of a
\* client are touched only by the operations given its ID.
Clients == {1, 2}
Seqs == 1 .. MaxSeq
Views == 0 .. MaxView
Procs == 1 .. NumProcs
Execs == 1 .. NumExecs

\* Request.Msg.Payload of the Request a client signs for a request identifier:
\* Requests with the same (ClientId, Seq) carry the same payload.
PayloadOf(c, s) == c * 100 + s

\* messages.Request: Msg{ClientId, Seq, Payload}.
Request(c, s) == [ClientId |-> c, Seq |-> s, Payload |-> PayloadOf(c, s)]

Requests == {Request(c, s) : c \in Clients, s \in Seqs}

NoRequest == [ClientId |-> 0, Seq |-> 0, Payload |-> 0]

\* (new bool, err error) of requestProcessor; NoReturn while it has not returned.
NoReturn == [new |-> FALSE, err |-> "none"]

\* primaryId = view mod n.
isPrimary(v, i, m) == i = v % m

VARIABLES
    view,             \* the view the viewProvider returns
    lastCapturedSeq,  \* clientstate: last captured request ID, per client
    lastReleasedSeq,  \* clientstate: last released request ID, per client
    lastPreparedSeq,  \* clientstate: last prepared request ID, per client
    lastRetiredSeq,   \* clientstate: last retired request ID, per client
    pc,               \* requestProcessor invocations: position of each
    req,              \* requestProcessor invocations: the Request supplied
    held,             \* requestProcessor invocations: capture not yet released
    applyErr,         \* requestProcessor invocations: what applyRequest returned
    ret,              \* requestProcessor invocations: (new, err) returned
    applied,          \* times the request applier ran, per (client, seq)
    prepares,         \* Prepares handed to handleGeneratedUIMessage, in order,
                      \* per client of the Request
    busy,             \* makeOperationExecutor: the atomic busy flag
    panicked,         \* the replica has panicked
    epc,              \* requestExecutor invocations: position of each
    ereq,             \* requestExecutor invocations: the Request supplied
    echan,            \* requestExecutor invocations: resultChan of its Deliver
    delivers,         \* number of consumer.Deliver invocations so far
    chans,            \* result channels of the Deliver invocations
    goroutines,       \* goroutines of requestExecutor waiting on a resultChan
    generated,        \* Replies handed to handleGeneratedMessage, in order,
                      \* per (ClientId, Seq) of the Request executed
    timer,            \* clientstate: the request timer, per client
    armed,            \* views given to requestTimerStarter, in order, per client
    timeouts,         \* views handed to handleTimeout with the arming that
                      \* expired, in order, per client
    stops,            \* armings that were running when requestTimerStopper
                      \* was called, per client
    seqLog            \* per client, in order: the request IDs for which
                      \* captureSeq, requestSeqPreparer and requestSeqRetirer
                      \* returned new = true, and those whose release function
                      \* was invoked

clientVars == <<lastCapturedSeq, lastReleasedSeq, lastPreparedSeq, lastRetiredSeq>>
procVars == <<pc, req, held, applyErr, ret, applied, prepares>>
execVars == <<busy, panicked, epc, ereq, echan, delivers, chans, goroutines, generated>>
timerVars == <<timer, armed, timeouts, stops>>
vars == <<view, clientVars, procVars, execVars, timerVars, seqLog>>

\* No timer was started yet. firedIn is the view in which the timer expired.
NoTimer == [state |-> "unset", view |-> 0, arm |-> 0, firedIn |-> 0]

InitReplica ==
    /\ view = 0
    /\ lastRetiredSeq = [c \in Clients |-> 0]
    /\ pc = [p \in Procs |-> "idle"]
    /\ req = [p \in Procs |-> NoRequest]
    /\ held = [p \in Procs |-> FALSE]
    /\ applyErr = [p \in Procs |-> "none"]
    /\ ret = [p \in Procs |-> NoReturn]
    /\ applied = [c \in Clients |-> [s \in Seqs |-> 0]]
    /\ prepares = [c \in Clients |-> <<>>]
    /\ busy = 0
    /\ panicked = FALSE
    /\ epc = [e \in Execs |-> "idle"]
    /\ ereq = [e \in Execs |-> NoRequest]
    /\ echan = [e \in Execs |-> 0]
    /\ delivers = 0
    /\ chans = {}
    /\ goroutines = {}
    /\ generated = [c \in Clients |-> [s \in Seqs |-> <<>>]]
    /\ timer = [c \in Clients |-> NoTimer]
    /\ armed = [c \in Clients |-> <<>>]
    /\ timeouts = [c \in Clients |-> <<>>]
    /\ stops = [c \in Clients |-> {}]

\* No call of the sequence lifecycle has returned new = true.
NoSeqLog == [captured |-> <<>>, released |-> <<>>, prepared |-> <<>>, retired |-> <<>>]

\* The replica after construction: no request ID of any client is captured.
Init ==
    /\ InitReplica
    /\ seqLog = [c \in Clients |-> NoSeqLog]
    /\ lastCapturedSeq = [c \in Clients |-> 0]
    /\ lastReleasedSeq = [c \in Clients |-> 0]
    /\ lastPreparedSeq = [c \in Clients |-> 0]

\* The replica after its request processor has returned for the Requests of
\* every client and their Prepares were accepted: the request IDs are
\* captured, released and prepared, and none is retired.
InitPrepared ==
    /\ InitReplica
    /\ lastCapturedSeq = [c \in Clients |-> MaxSeq]
    /\ lastReleasedSeq = [c \in Clients |-> MaxSeq]
    /\ lastPreparedSeq = [c \in Clients |-> MaxSeq]
    /\ seqLog = [c \in Clients |->
                    [captured |-> [i \in Seqs |-> i], released |-> [i \in Seqs |-> i],
                     prepared |-> [i \in Seqs |-> i], retired |-> <<>>]]

\* ------------------------------------------------------------ clientstate
\* CaptureRequestSeq(seq) returning new = true: no request ID of the client is
\* captured and not released, and seq is greater than the last captured one.
CaptureRequestSeqNew(c, s) ==
    /\ lastCapturedSeq[c] = lastReleasedSeq[c]
    /\ s > lastCapturedSeq[c]
    /\ lastCapturedSeq' = [lastCapturedSeq EXCEPT ![c] = s]

\* CaptureRequestSeq(seq) returning new = false: seq is not greater than the
\* last captured request ID; nothing changes.
CaptureRequestSeqOld(c, s) ==
    /\ s <= lastCapturedSeq[c]
    /\ UNCHANGED lastCapturedSeq

\* The release function CaptureRequestSeq returned for seq.
ReleaseRequestSeq(c, s) ==
    lastReleasedSeq' = [lastReleasedSeq EXCEPT ![c] = s]

\* PrepareRequestSeq(seq): (new, err).
PrepareRequestSeq(c, s) ==
    IF s > lastCapturedSeq[c] THEN [new |-> FALSE, err |-> "error"]
    ELSE [new |-> s > lastPreparedSeq[c], err |-> "nil"]

\* RetireRequestSeq(seq): (new, err).
RetireRequestSeq(c, s) ==
    IF s > lastPreparedSeq[c] THEN [new |-> FALSE, err |-> "error"]
    ELSE [new |-> s > lastRetiredSeq[c], err |-> "nil"]

\* StartRequestTimer(callback): the client's timer is (re)armed with the
\* callback; a timer that was running is replaced.
StartRequestTimer(c, v) ==
    timer' = [timer EXCEPT ![c] =
                 [state |-> "running", view |-> v, arm |-> Len(armed[c]) + 1,
                  firedIn |-> 0]]

\* StopRequestTimer(): a running timer is stopped; otherwise nothing changes.
StopRequestTimer(c) ==
    timer' = [timer EXCEPT ![c] =
                 IF @.state = "running" THEN [@ EXCEPT !.state = "stopped"] ELSE @]

\* seqLog with request ID s of client c added to one of its four records.
Logged(log, kind, c, s) == [log EXCEPT ![c][kind] = Append(@, s)]

\* ------------------------------------------------------- request processor
\* A Request is handed to requestProcessor (by a client or peer connection).
RequestProcessorInvoke(p, r) ==
    /\ pc[p] = "idle"
    /\ pc' = [pc EXCEPT ![p] = "capture"]
    /\ req' = [req EXCEPT ![p] = r]
    /\ ret' = [ret EXCEPT ![p] = NoReturn]
    /\ UNCHANGED <<view, seqLog, clientVars, held, applyErr, applied, prepares,
                   execVars, timerVars>>

\* RequestProcessorCapture with releaseSeq() called at once instead of deferred.
RequestProcessorCaptureNoDefer(p) ==
    /\ pc[p] = "capture"
    /\ \/ /\ CaptureRequestSeqNew(req[p].ClientId, req[p].Seq)
          /\ ReleaseRequestSeq(req[p].ClientId, req[p].Seq)
          /\ seqLog' = Logged(Logged(seqLog, "captured", req[p].ClientId, req[p].Seq),
                              "released", req[p].ClientId, req[p].Seq)
          /\ pc' = [pc EXCEPT ![p] = "apply"]
          /\ UNCHANGED <<ret, req, held>>
       \/ /\ CaptureRequestSeqOld(req[p].ClientId, req[p].Seq)
          /\ pc' = [pc EXCEPT ![p] = "idle"]
          /\ ret' = [ret EXCEPT ![p] = [new |-> FALSE, err |-> "nil"]]
          /\ req' = [req EXCEPT ![p] = NoRequest]
          /\ UNCHANGED <<held, lastReleasedSeq, seqLog>>
    /\ UNCHANGED <<view, lastPreparedSeq, lastRetiredSeq,
                   applyErr, applied, prepares, execVars, timerVars>>

\* RequestProcessorCapture without the return on !new.
RequestProcessorCaptureIgnoreNew(p) ==
    /\ pc[p] = "capture"
    /\ \/ /\ CaptureRequestSeqNew(req[p].ClientId, req[p].Seq)
          /\ held' = [held EXCEPT ![p] = TRUE]
          /\ seqLog' = Logged(seqLog, "captured", req[p].ClientId, req[p].Seq)
       \/ /\ CaptureRequestSeqOld(req[p].ClientId, req[p].Seq)
          /\ UNCHANGED <<held, seqLog>>
    /\ pc' = [pc EXCEPT ![p] = "apply"]
    /\ UNCHANGED <<view, lastReleasedSeq, lastPreparedSeq, lastRetiredSeq, ret, req,
                   applyErr, applied, prepares, execVars, timerVars>>

\* RequestProcessorCapture with one capture for all clients: a request ID is
\* captured only while no invocation holds a capture, of whatever client.
RequestProcessorCaptureShared(p) ==
    /\ pc[p] = "capture"
    /\ \/ /\ \A q \in Procs : ~held[q]
          /\ CaptureRequestSeqNew(req[p].ClientId, req[p].Seq)
          /\ held' = [held EXCEPT ![p] = TRUE]
          /\ seqLog' = Logged(seqLog, "captured", req[p].ClientId, req[p].Seq)
          /\ pc' = [pc EXCEPT ![p] = "apply"]
          /\ UNCHANGED <<ret, req, lastReleasedSeq>>
       \/ /\ CaptureRequestSeqOld(req[p].ClientId, req[p].Seq)
          /\ pc' = [pc EXCEPT ![p] = "idle"]
          /\ ret' = [ret EXCEPT ![p] = [new |-> FALSE, err |-> "nil"]]
          /\ req' = [req EXCEPT ![p] = NoRequest]
          /\ UNCHANGED <<held, lastReleasedSeq, seqLog>>
    /\ UNCHANGED <<view, lastPreparedSeq, lastRetiredSeq,
                   applyErr, applied, prepares, execVars, timerVars>>

\* new, releaseSeq := captureSeq(request); if !new { return false, nil };
\* defer releaseSeq()
RequestProcessorCapture(p) ==
    /\ pc[p] = "capture"
    /\ \/ /\ CaptureRequestSeqNew(req[p].ClientId, req[p].Seq)
          /\ held' = [held EXCEPT ![p] = TRUE]
          /\ seqLog' = Logged(seqLog, "captured", req[p].ClientId, req[p].Seq)
          /\ pc' = [pc EXCEPT ![p] = "apply"]
          /\ UNCHANGED <<ret, req, lastReleasedSeq>>
       \/ /\ CaptureRequestSeqOld(req[p].ClientId, req[p].Seq)
          /\ pc' = [pc EXCEPT ![p] = "idle"]
          /\ ret' = [ret EXCEPT ![p] = [new |-> FALSE, err |-> "nil"]]
          /\ req' = [req EXCEPT ![p] = NoRequest]
          /\ UNCHANGED <<held, lastReleasedSeq, seqLog>>
    /\ UNCHANGED <<view, lastPreparedSeq, lastRetiredSeq,
                   applyErr, applied, prepares, execVars, timerVars>>

\* messages.Prepare: Msg{View, ReplicaId, Request}.
Prepare(v, i, r) == [View |-> v, ReplicaId |-> i, Request |-> r]

\* RequestApplierMessages without the check for the primary.
RequestApplierMessagesAlways(v, r) == <<Prepare(v, id, r)>>

\* What the requestApplier hands to handleGeneratedUIMessage for a Request
\* applied in view v.
RequestApplierMessages(v, r) ==
    IF isPrimary(v, id, n) THEN <<Prepare(v, id, r)>> ELSE <<>>

\* handleGeneratedUIMessage(prepare) also delivers the Prepare to this replica's
\* own prepare processor, within the call: its captureSeq of the Request, which
\* the invocation that runs the applier still holds captured, returns
\* new = false and the Prepare is dropped there.
RequestApplierLoopback(v, r) ==
    isPrimary(v, id, n) => CaptureRequestSeqOld(r.ClientId, r.Seq)

\* applyRequest(request): the request applier, invoked by the processor.
RequestApplier(p) ==
    /\ pc[p] = "apply"
    /\ applied' = [applied EXCEPT ![req[p].ClientId][req[p].Seq] = @ + 1]
    /\ prepares' = [prepares EXCEPT ![req[p].ClientId] =
                       @ \o RequestApplierMessages(view, req[p])]
    /\ applyErr' = [applyErr EXCEPT ![p] = "nil"]
    /\ pc' = [pc EXCEPT ![p] = "release"]
    /\ UNCHANGED <<view, seqLog, clientVars, req, held, ret, execVars, timerVars>>
    /\ RequestApplierLoopback(view, req[p])

\* A requestApplier that fails: requestProcessor is constructed over any
\* requestApplier, and this one returns an error.
RequestApplierError(p) ==
    /\ pc[p] = "apply"
    /\ applied' = [applied EXCEPT ![req[p].ClientId][req[p].Seq] = @ + 1]
    /\ applyErr' = [applyErr EXCEPT ![p] = "error"]
    /\ pc' = [pc EXCEPT ![p] = "release"]
    /\ UNCHANGED <<view, seqLog, clientVars, req, held, ret, prepares, execVars,
                   timerVars>>

\* RequestProcessorReturn with releaseSeq() called after the error check
\* instead of deferred: an error of applyRequest returns without the release.
RequestProcessorReturnNoReleaseOnError(p) ==
    /\ pc[p] = "release"
    /\ IF applyErr[p] = "nil"
       THEN /\ ReleaseRequestSeq(req[p].ClientId, req[p].Seq)
            /\ seqLog' = Logged(seqLog, "released", req[p].ClientId, req[p].Seq)
       ELSE UNCHANGED <<lastReleasedSeq, seqLog>>
    /\ held' = [held EXCEPT ![p] = FALSE]
    /\ ret' = [ret EXCEPT ![p] = IF applyErr[p] = "nil"
                                   THEN [new |-> TRUE, err |-> "nil"]
                                   ELSE [new |-> FALSE, err |-> "error"]]
    /\ pc' = [pc EXCEPT ![p] = "idle"]
    /\ req' = [req EXCEPT ![p] = NoRequest]
    /\ applyErr' = [applyErr EXCEPT ![p] = "none"]
    /\ UNCHANGED <<view, lastCapturedSeq, lastPreparedSeq, lastRetiredSeq,
                   applied, prepares, execVars, timerVars>>

\* RequestProcessorReturn without the deferred releaseSeq().
RequestProcessorReturnNoRelease(p) ==
    /\ pc[p] = "release"
    /\ held' = [held EXCEPT ![p] = FALSE]
    /\ ret' = [ret EXCEPT ![p] = IF applyErr[p] = "nil"
                                   THEN [new |-> TRUE, err |-> "nil"]
                                   ELSE [new |-> FALSE, err |-> "error"]]
    /\ pc' = [pc EXCEPT ![p] = "idle"]
    /\ req' = [req EXCEPT ![p] = NoRequest]
    /\ applyErr' = [applyErr EXCEPT ![p] = "none"]
    /\ UNCHANGED <<view, seqLog, clientVars, applied, prepares, execVars, timerVars>>

\* The return of requestProcessor after applyRequest: the deferred releaseSeq()
\* runs, and (true, nil) or (false, error) is returned.
RequestProcessorReturn(p) ==
    /\ pc[p] = "release"
    /\ ReleaseRequestSeq(req[p].ClientId, req[p].Seq)
    /\ seqLog' = Logged(seqLog, "released", req[p].ClientId, req[p].Seq)
    /\ held' = [held EXCEPT ![p] = FALSE]
    /\ ret' = [ret EXCEPT ![p] = IF applyErr[p] = "nil"
                                   THEN [new |-> TRUE, err |-> "nil"]
                                   ELSE [new |-> FALSE, err |-> "error"]]
    /\ pc' = [pc EXCEPT ![p] = "idle"]
    /\ req' = [req EXCEPT ![p] = NoRequest]
    /\ applyErr' = [applyErr EXCEPT ![p] = "none"]
    /\ UNCHANGED <<view, lastCapturedSeq, lastPreparedSeq, lastRetiredSeq,
                   applied, prepares, execVars, timerVars>>

\* The view the viewProvider returns moves on.
ViewChange ==
    /\ view < MaxView
    /\ view' = view + 1
    /\ UNCHANGED <<clientVars, procVars, execVars, timerVars, seqLog>>

\* ------------------------------------------------ sequence lifecycle
\* RequestSeqPreparer that returns true whenever PrepareRequestSeq gives no error.
RequestSeqPreparerAlwaysNew(c, s) ==
    /\ ~panicked
    /\ panicked' = (PrepareRequestSeq(c, s).err # "nil")
    /\ lastPreparedSeq' = IF PrepareRequestSeq(c, s).new
                          THEN [lastPreparedSeq EXCEPT ![c] = s]
                          ELSE lastPreparedSeq
    /\ seqLog' = IF PrepareRequestSeq(c, s).err = "nil"
                 THEN Logged(seqLog, "prepared", c, s)
                 ELSE seqLog

\* RequestSeqPreparer that returns false on an error of PrepareRequestSeq
\* instead of panicking.
RequestSeqPreparerNoPanic(c, s) ==
    /\ ~panicked
    /\ UNCHANGED panicked
    /\ lastPreparedSeq' = IF PrepareRequestSeq(c, s).new
                          THEN [lastPreparedSeq EXCEPT ![c] = s]
                          ELSE lastPreparedSeq
    /\ seqLog' = IF PrepareRequestSeq(c, s).err = "nil" /\ PrepareRequestSeq(c, s).new
                 THEN Logged(seqLog, "prepared", c, s)
                 ELSE seqLog

\* requestSeqPreparer(request): panics on an error of PrepareRequestSeq,
\* otherwise records the request ID as prepared when it is new.
RequestSeqPreparer(c, s) ==
    /\ ~panicked
    /\ panicked' = (PrepareRequestSeq(c, s).err # "nil")
    /\ lastPreparedSeq' = IF PrepareRequestSeq(c, s).new
                          THEN [lastPreparedSeq EXCEPT ![c] = s]
                          ELSE lastPreparedSeq
    /\ seqLog' = IF PrepareRequestSeq(c, s).err = "nil" /\ PrepareRequestSeq(c, s).new
                 THEN Logged(seqLog, "prepared", c, s)
                 ELSE seqLog

\* RequestSeqRetirer that returns true whenever RetireRequestSeq gives no error.
RequestSeqRetirerAlwaysNew(c, s) ==
    IF RetireRequestSeq(c, s).err # "nil" THEN "panic" ELSE "true"

\* RequestSeqRetirer with the test of new inverted.
RequestSeqRetirerInverted(c, s) ==
    IF RetireRequestSeq(c, s).err # "nil" THEN "panic"
    ELSE IF RetireRequestSeq(c, s).new THEN "false"
    ELSE "true"

\* requestSeqRetirer(request): panics on an error of RetireRequestSeq,
\* otherwise returns new.
RequestSeqRetirer(c, s) ==
    IF RetireRequestSeq(c, s).err # "nil" THEN "panic"
    ELSE IF ~RetireRequestSeq(c, s).new THEN "false"
    ELSE "true"

\* A Prepare for a captured request ID is accepted: the ID is prepared.
PrepareAccept(c, s) ==
    /\ s <= lastCapturedSeq[c]
    /\ RequestSeqPreparer(c, s)
    /\ UNCHANGED <<view, lastCapturedSeq, lastReleasedSeq, lastRetiredSeq, procVars,
                   busy, epc, ereq, echan, delivers, chans, goroutines, generated,
                   timerVars>>

\* ---------------------------------------------------------- commit processor
\* Requests handed to the request executor are bounded: one more than the
\* Requests there are.
MaxDelivers == Cardinality(Requests) + 1

\* The commit processor finds the Request of a prepared request ID committed:
\* retireSeq; if new, the Request is handed to the request executor. With
\* serialized, commits are processed one at a time.
CommitCollect(e, c, s, serialized) ==
    /\ ~panicked
    /\ epc[e] = "idle"
    /\ delivers + Cardinality({e2 \in Execs : epc[e2] = "enter"}) < MaxDelivers
    /\ serialized => \A e2 \in Execs : epc[e2] = "idle"
    /\ s <= lastPreparedSeq[c]
    /\ lastRetiredSeq' = IF RetireRequestSeq(c, s).new
                         THEN [lastRetiredSeq EXCEPT ![c] = s]
                         ELSE lastRetiredSeq
    /\ \/ /\ RequestSeqRetirer(c, s) = "true"
          /\ seqLog' = Logged(seqLog, "retired", c, s)
          /\ epc' = [epc EXCEPT ![e] = "enter"]
          /\ ereq' = [ereq EXCEPT ![e] = Request(c, s)]
          /\ UNCHANGED panicked
       \/ /\ RequestSeqRetirer(c, s) = "false"
          /\ UNCHANGED <<epc, ereq, panicked, seqLog>>
       \/ /\ RequestSeqRetirer(c, s) = "panic"
          /\ panicked' = TRUE
          /\ UNCHANGED <<epc, ereq, seqLog>>
    /\ UNCHANGED <<view, lastCapturedSeq, lastReleasedSeq, lastPreparedSeq, procVars,
                   busy, echan, delivers, chans, goroutines, generated, timerVars>>

CommitApply(e, c, s) == CommitCollect(e, c, s, TRUE)

\* A caller of the request executor that does not serialize its invocations.
CommitApplyConcurrently(e, c, s) == CommitCollect(e, c, s, FALSE)

\* ---------------------------------------------------------- operation executor
\* What the consumer yields for an operation (deterministic).
Result(op) == op + 1000

\* OperationExecutorEnter that sets the busy flag without looking at what it was.
OperationExecutorEnterNoGuard(e) ==
    /\ ~panicked
    /\ epc[e] = "enter"
    /\ busy' = 1
    /\ epc' = [epc EXCEPT ![e] = "deliver"]
    /\ delivers' = delivers + 1
    /\ echan' = [echan EXCEPT ![e] = delivers + 1]
    /\ chans' = chans \cup {[id |-> delivers + 1,
                             op |-> ereq[e].Payload,
                             state |-> "pending"]}
    /\ UNCHANGED <<view, seqLog, clientVars, procVars, panicked, ereq, goroutines, generated,
                   timerVars>>

\* OperationExecutorEnter that loads the busy flag and never sets it.
OperationExecutorEnterLoad(e) ==
    /\ ~panicked
    /\ epc[e] = "enter"
    /\ IF busy # 0
       THEN /\ panicked' = TRUE
            /\ epc' = [epc EXCEPT ![e] = "panic"]
            /\ UNCHANGED <<busy, echan, delivers, chans>>
       ELSE /\ epc' = [epc EXCEPT ![e] = "deliver"]
            /\ delivers' = delivers + 1
            /\ echan' = [echan EXCEPT ![e] = delivers + 1]
            /\ chans' = chans \cup {[id |-> delivers + 1,
                                     op |-> ereq[e].Payload,
                                     state |-> "pending"]}
            /\ UNCHANGED <<busy, panicked>>
    /\ UNCHANGED <<view, seqLog, clientVars, procVars, ereq, goroutines, generated, timerVars>>

\* atomic.SwapUint32(&busy, 1): panic when it was busy; otherwise
\* consumer.Deliver(op) is invoked.
OperationExecutorEnter(e) ==
    /\ ~panicked
    /\ epc[e] = "enter"
    /\ IF busy # 0
       THEN /\ panicked' = TRUE
            /\ epc' = [epc EXCEPT ![e] = "panic"]
            /\ UNCHANGED <<busy, echan, delivers, chans>>
       ELSE /\ busy' = 1
            /\ epc' = [epc EXCEPT ![e] = "deliver"]
            /\ delivers' = delivers + 1
            /\ echan' = [echan EXCEPT ![e] = delivers + 1]
            /\ chans' = chans \cup {[id |-> delivers + 1,
                                     op |-> ereq[e].Payload,
                                     state |-> "pending"]}
            /\ UNCHANGED panicked
    /\ UNCHANGED <<view, seqLog, clientVars, procVars, ereq, goroutines, generated, timerVars>>

\* consumer.Deliver(op) returns the result channel.
ConsumerDeliverReturn(e) ==
    /\ ~panicked
    /\ epc[e] = "deliver"
    /\ epc' = [epc EXCEPT ![e] = "store"]
    /\ UNCHANGED <<view, seqLog, clientVars, procVars, busy, panicked, ereq, echan, delivers,
                   chans, goroutines, generated, timerVars>>

\* OperationExecutorExit that returns without clearing the busy flag.
OperationExecutorExitNoStore(e) ==
    /\ ~panicked
    /\ epc[e] = "store"
    /\ epc' = [epc EXCEPT ![e] = "spawn"]
    /\ UNCHANGED <<view, seqLog, clientVars, procVars, busy, panicked, ereq, echan,
                   delivers, chans, goroutines, generated, timerVars>>

\* atomic.StoreUint32(&busy, 0); return resultChan
OperationExecutorExit(e) ==
    /\ ~panicked
    /\ epc[e] = "store"
    /\ busy' = 0
    /\ epc' = [epc EXCEPT ![e] = "spawn"]
    /\ UNCHANGED <<view, seqLog, clientVars, procVars, panicked, ereq, echan, delivers,
                   chans, goroutines, generated, timerVars>>

\* The consumer yields the result of an operation on its result channel.
ConsumerYield(ch) ==
    /\ ~panicked
    /\ ch \in chans
    /\ ch.state = "pending"
    /\ chans' = (chans \ {ch}) \cup {[ch EXCEPT !.state = "yielded"]}
    /\ UNCHANGED <<view, seqLog, clientVars, procVars, busy, panicked, epc, ereq, echan,
                   delivers, goroutines, generated, timerVars>>

\* ------------------------------------------------------------ request executor
\* go func() { ... }(): the goroutine that waits for the result is started and
\* requestExecutor returns.
RequestExecutorSpawn(e) ==
    /\ ~panicked
    /\ epc[e] = "spawn"
    /\ goroutines' = goroutines \cup {[request |-> ereq[e], chan |-> echan[e]]}
    /\ epc' = [epc EXCEPT ![e] = "done"]
    /\ UNCHANGED <<view, seqLog, clientVars, procVars, busy, panicked, ereq, echan, delivers,
                   chans, generated, timerVars>>

\* The Signature of a Reply that was not signed.
NoSignature == [signer |-> -1, msg |-> <<>>]

\* messages.Reply: Msg{ReplicaId, ClientId, Seq, Result}, not signed yet.
Reply(i, r, result) ==
    [ReplicaId |-> i, ClientId |-> r.ClientId, Seq |-> r.Seq, Result |-> result,
     Signature |-> NoSignature]

\* signer(reply): the replica signs the Reply.
Sign(reply) ==
    [reply EXCEPT !.Signature =
        [signer |-> id,
         msg |-> <<reply.ReplicaId, reply.ClientId, reply.Seq, reply.Result>>]]

\* RequestExecutorReply without the call of the signer.
RequestExecutorReplyUnsigned(r, result) == Reply(id, r, result)

\* The Reply the goroutine of requestExecutor hands to handleGeneratedMessage
\* for a Request and the result it received.
RequestExecutorReply(r, result) == Sign(Reply(id, r, result))

\* result := <-resultChan; the Reply is built, signed and handed to
\* handleGeneratedMessage.
RequestExecutorGoroutine(g) ==
    /\ ~panicked
    /\ g \in goroutines
    /\ \E ch \in chans :
          /\ ch.id = g.chan
          /\ ch.state = "yielded"
          /\ chans' = (chans \ {ch}) \cup {[ch EXCEPT !.state = "received"]}
          /\ generated' = [generated EXCEPT ![g.request.ClientId][g.request.Seq] =
                              Append(@, RequestExecutorReply(g.request, Result(ch.op)))]
    /\ goroutines' = goroutines \ {g}
    /\ UNCHANGED <<view, seqLog, clientVars, procVars, busy, panicked, epc, ereq, echan,
                   delivers, timerVars>>

\* requestExecutor has returned to the commit processor, which stops the
\* request timer of the client.
CommitFinish(e) ==
    /\ ~panicked
    /\ epc[e] = "done"
    /\ StopRequestTimer(ereq[e].ClientId)
    /\ epc' = [epc EXCEPT ![e] = "idle"]
    /\ ereq' = [ereq EXCEPT ![e] = NoRequest]
    /\ echan' = [echan EXCEPT ![e] = 0]
    /\ UNCHANGED <<view, seqLog, clientVars, procVars, busy, panicked, delivers, chans,
                   goroutines, generated, armed, timeouts, stops>>

\* The goroutines requestExecutor can start.
Goroutines == {[request |-> r, chan |-> k] : r \in Requests, k \in 1 .. MaxDelivers}

\* The thread the commit processor runs on when it processes commits one at
\* a time.
Committer == CHOOSE e \in Execs : TRUE

NextExecute ==
    \/ \E c \in Clients, s \in Seqs : CommitApply(Committer, c, s)
    \/ \E e \in Execs : OperationExecutorEnter(e)
    \/ \E e \in Execs : ConsumerDeliverReturn(e)
    \/ \E e \in Execs : OperationExecutorExit(e)
    \/ \E e \in Execs : RequestExecutorSpawn(e)
    \/ \E e \in Execs : CommitFinish(e)
    \/ \E ch \in chans : ConsumerYield(ch)
    \/ \E g \in goroutines : RequestExecutorGoroutine(g)

\* Prepared Requests are committed one at a time and executed.
SpecExecute == InitPrepared /\ [][NextExecute]_vars

\* The scheduler runs every thread and goroutine that can take a step, and
\* every Deliver call of the consumer returns.
FairExecute ==
    /\ \A e \in Execs : WF_vars(ConsumerDeliverReturn(e))
    /\ \A e \in Execs : WF_vars(OperationExecutorExit(e))
    /\ \A e \in Execs : WF_vars(RequestExecutorSpawn(e))
    /\ \A g \in Goroutines : WF_vars(RequestExecutorGoroutine(g))

SpecExecuteFair == SpecExecute /\ FairExecute

NextConcurrent ==
    \/ \E e \in Execs, c \in Clients, s \in Seqs : CommitApplyConcurrently(e, c, s)
    \/ \E e \in Execs : OperationExecutorEnter(e)
    \/ \E e \in Execs : ConsumerDeliverReturn(e)
    \/ \E e \in Execs : OperationExecutorExit(e)
    \/ \E e \in Execs : RequestExecutorSpawn(e)
    \/ \E e \in Execs : CommitFinish(e)
    \/ \E ch \in chans : ConsumerYield(ch)
    \/ \E g \in goroutines : RequestExecutorGoroutine(g)

\* The request executor under callers that do not serialize its invocations.
SpecConcurrent == InitPrepared /\ [][NextConcurrent]_vars

\* --------------------------------------------------------------- request timer
\* RequestTimerStarter that leaves a running timer alone.
RequestTimerStarterNoRestart(c, v) ==
    IF timer[c].state = "running" THEN UNCHANGED timer ELSE StartRequestTimer(c, v)

\* requestTimerStarter(clientID, view): the client's timer is started with a
\* callback that holds the view given.
RequestTimerStarter(c, v) == StartRequestTimer(c, v)

\* RequestTimerCallback that hands over the view current when the timer expires.
RequestTimerCallbackCurrentView(c) ==
    timeouts' = [timeouts EXCEPT ![c] = Append(@, [view |-> view, arm |-> timer[c].arm])]

\* The callback of requestTimerStarter: handleTimeout(view).
RequestTimerCallback(c) ==
    timeouts' = [timeouts EXCEPT ![c] =
                    Append(@, [view |-> timer[c].view, arm |-> timer[c].arm])]

\* RequestTimerStopper that does not stop the timer.
RequestTimerStopperNoop(c) == UNCHANGED timer

\* requestTimerStopper(clientID).
RequestTimerStopper(c) == StopRequestTimer(c)

\* The request timer of a client is started with the current view.
RequestTimerStart(c) ==
    /\ Len(armed[c]) < MaxArm
    /\ armed' = [armed EXCEPT ![c] = Append(@, view)]
    /\ RequestTimerStarter(c, view)
    /\ UNCHANGED <<view, seqLog, clientVars, procVars, execVars, timeouts, stops>>

\* The request timer of a client is stopped.
RequestTimerStop(c) ==
    /\ stops' = [stops EXCEPT ![c] =
                    IF timer[c].state = "running" THEN @ \cup {timer[c].arm} ELSE @]
    /\ RequestTimerStopper(c)
    /\ UNCHANGED <<view, seqLog, clientVars, procVars, execVars, armed, timeouts>>

\* The request timeout elapses for a running timer: its callback runs.
RequestTimerExpire(c) ==
    /\ timer[c].state = "running"
    /\ timer' = [timer EXCEPT ![c].state = "expired", ![c].firedIn = view]
    /\ RequestTimerCallback(c)
    /\ UNCHANGED <<view, seqLog, clientVars, procVars, execVars, armed, stops>>

NextTimer ==
    \/ \E c \in Clients : RequestTimerStart(c)
    \/ \E c \in Clients : RequestTimerStop(c)
    \/ \E c \in Clients : RequestTimerExpire(c)
    \/ ViewChange

\* The request timers under any order of starts, stops, expiries and view changes.
SpecTimer == Init /\ [][NextTimer]_vars

NextProcess ==
    \/ \E p \in Procs, r \in Requests : RequestProcessorInvoke(p, r)
    \/ \E p \in Procs : RequestProcessorCapture(p)
    \/ \E p \in Procs : RequestApplier(p)
    \/ \E p \in Procs : RequestProcessorReturn(p)
    \/ ViewChange

\* The request processor under concurrent Requests and view changes.
SpecProcess == Init /\ [][NextProcess]_vars

\* ---------------------------------------- request processor over any applier
NextApply ==
    \/ \E p \in Procs, r \in Requests : RequestProcessorInvoke(p, r)
    \/ \E p \in Procs : RequestProcessorCapture(p)
    \/ \E p \in Procs : RequestApplier(p)
    \/ \E p \in Procs : RequestApplierError(p)
    \/ \E p \in Procs : RequestProcessorReturn(p)
    \/ ViewChange

\* The request processor under concurrent Requests and view changes, with a
\* request applier that may fail.
SpecApply == Init /\ [][NextApply]_vars

\* Every requestProcessor invocation that can take a step eventually does. The
\* request applier of the replica returns once handleGeneratedUIMessage has,
\* unless the applier has failed before.
FairApply ==
    /\ \A p \in Procs : WF_vars(RequestProcessorCapture(p))
    /\ \A p \in Procs : WF_vars(RequestApplier(p))
    /\ \A p \in Procs : WF_vars(RequestProcessorReturn(p))

SpecApplyFair == SpecApply /\ FairApply

\* ------------------------------------------------- sequence lifecycle calls
\* Sequence lifecycle calls are bounded: each of them is made at most this many
\* times with new = true per client.
MaxNew == MaxSeq + 1

\* captureSeq(request) is called and returns: new = true with the release
\* function, or new = false.
CaptureCall(c, s) ==
    /\ ~panicked
    /\ \/ /\ CaptureRequestSeqNew(c, s)
          /\ seqLog' = Logged(seqLog, "captured", c, s)
       \/ /\ CaptureRequestSeqOld(c, s)
          /\ UNCHANGED seqLog
    /\ UNCHANGED <<view, lastReleasedSeq, lastPreparedSeq, lastRetiredSeq, procVars,
                   execVars, timerVars>>

\* The release function of the client's captured request ID is invoked.
ReleaseCall(c) ==
    /\ ~panicked
    /\ lastCapturedSeq[c] # lastReleasedSeq[c]
    /\ ReleaseRequestSeq(c, lastCapturedSeq[c])
    /\ seqLog' = Logged(seqLog, "released", c, lastCapturedSeq[c])
    /\ UNCHANGED <<view, lastCapturedSeq, lastPreparedSeq, lastRetiredSeq, procVars,
                   execVars, timerVars>>

\* requestSeqPreparer(request) is called, for any request ID.
PrepareCall(c, s) ==
    /\ Len(seqLog[c].prepared) < MaxNew
    /\ RequestSeqPreparer(c, s)
    /\ UNCHANGED <<view, lastCapturedSeq, lastReleasedSeq, lastRetiredSeq, procVars,
                   busy, epc, ereq, echan, delivers, chans, goroutines, generated,
                   timerVars>>

\* requestSeqRetirer(request) is called, for any request ID.
RetireCall(c, s) ==
    /\ ~panicked
    /\ Len(seqLog[c].retired) < MaxNew
    /\ lastRetiredSeq' = IF RetireRequestSeq(c, s).new
                         THEN [lastRetiredSeq EXCEPT ![c] = s]
                         ELSE lastRetiredSeq
    /\ panicked' = (RequestSeqRetirer(c, s) = "panic")
    /\ seqLog' = IF RequestSeqRetirer(c, s) = "true"
                 THEN Logged(seqLog, "retired", c, s)
                 ELSE seqLog
    /\ UNCHANGED <<view, lastCapturedSeq, lastReleasedSeq, lastPreparedSeq, procVars,
                   busy, epc, ereq, echan, delivers, chans, goroutines, generated,
                   timerVars>>

NextSeq ==
    \/ \E c \in Clients, s \in Seqs : CaptureCall(c, s)
    \/ \E c \in Clients : ReleaseCall(c)
    \/ \E c \in Clients, s \in Seqs : PrepareCall(c, s)
    \/ \E c \in Clients, s \in Seqs : RetireCall(c, s)

\* The sequence lifecycle under any order and interleaving of capture, release,
\* prepare and retire calls.
SpecSeq == Init /\ [][NextSeq]_vars

\* ------------------------------------------------------------ backup replica
\* The prepare processor of a backup accepts the Prepare the primary of the
\* current view sent for a Request: captureSeq gives new, the request ID is
\* prepared and released, and the request timer of the client is started with
\* the current view. A Prepare whose request ID is not new is dropped.
PrepareProcess(c, s) ==
    /\ ~panicked
    /\ ~isPrimary(view, id, n)
    /\ CaptureRequestSeqNew(c, s)
    /\ ReleaseRequestSeq(c, s)
    /\ lastPreparedSeq' = [lastPreparedSeq EXCEPT ![c] = s]
    /\ seqLog' = Logged(Logged(Logged(seqLog, "captured", c, s), "prepared", c, s),
                        "released", c, s)
    /\ armed' = [armed EXCEPT ![c] = Append(@, view)]
    /\ RequestTimerStarter(c, view)
    /\ UNCHANGED <<view, lastRetiredSeq, procVars, execVars, timeouts, stops>>

NextBackup ==
    \/ \E p \in Procs, r \in Requests : RequestProcessorInvoke(p, r)
    \/ \E p \in Procs : RequestProcessorCapture(p)
    \/ \E p \in Procs : RequestApplier(p)
    \/ \E p \in Procs : RequestProcessorReturn(p)
    \/ \E c \in Clients, s \in Seqs : PrepareProcess(c, s)
    \/ \E c \in Clients : RequestTimerExpire(c)

\* Every requestProcessor invocation that can take a step does, and a running
\* request timer expires when the request timeout has elapsed. Nothing makes
\* the primary send a Prepare.
FairBackup ==
    /\ \A p \in Procs : WF_vars(RequestProcessorCapture(p))
    /\ \A p \in Procs : WF_vars(RequestApplier(p))
    /\ \A p \in Procs : WF_vars(RequestProcessorReturn(p))
    /\ \A c \in Clients : WF_vars(RequestTimerExpire(c))

\* This replica as a backup of the static view 0 (n = 3, primary 0): clients
\* submit Requests, and the primary sends Prepares for them or does not.
SpecBackup == Init /\ [][NextBackup]_vars /\ FairBackup

\* ------------------------------------------------------------------- replica
Next ==
    \/ \E p \in Procs, r \in Requests : RequestProcessorInvoke(p, r)
    \/ \E p \in Procs : RequestProcessorCapture(p)
    \/ \E p \in Procs : RequestApplier(p)
    \/ \E p \in Procs : RequestProcessorReturn(p)
    \/ ViewChange
    \/ \E c \in Clients, s \in Seqs : PrepareAccept(c, s)
    \/ \E c \in Clients, s \in Seqs : CommitApply(Committer, c, s)
    \/ \E e \in Execs : OperationExecutorEnter(e)
    \/ \E e \in Execs : ConsumerDeliverReturn(e)
    \/ \E e \in Execs : OperationExecutorExit(e)
    \/ \E e \in Execs : RequestExecutorSpawn(e)
    \/ \E e \in Execs : CommitFinish(e)
    \/ \E ch \in chans : ConsumerYield(ch)
    \/ \E g \in goroutines : RequestExecutorGoroutine(g)
    \/ \E c \in Clients : RequestTimerStart(c)
    \/ \E c \in Clients : RequestTimerStop(c)
    \/ \E c \in Clients : RequestTimerExpire(c)

Spec == Init /\ [][Next]_vars

\* ------------------------------------------------------------------- claims

\* C1: for each client at most one requestProcessor invocation is between a
\* captureSeq that returned new = true and the call of its release function,
\* and at most one invocation is inside the request applier.
C1_OneCapturePerClient ==
    \A c \in Clients :
        /\ Cardinality({p \in Procs : held[p] /\ req[p].ClientId = c}) <= 1
        /\ Cardinality({p \in Procs : pc[p] = "apply" /\ req[p].ClientId = c}) <= 1

\* An invocation holds the capture of a client and is inside the applier while
\* another invocation with a later request ID of that client waits in captureSeq.
C1_Witness ==
    \E p, q \in Procs :
        /\ p # q
        /\ held[p] /\ pc[p] = "apply"
        /\ pc[q] = "capture"
        /\ req[q].ClientId = req[p].ClientId
        /\ req[q].Seq > req[p].Seq

\* C2: the request applier runs at most once per (client, seq); an invocation
\* whose seq is not greater than the client's last captured seq returns
\* (false, nil) from captureSeq on, without running the applier, generating a
\* Prepare or changing the client's captured, released, prepared or retired seq.
C2_ProcessedAtMostOnce ==
    /\ [](\A c \in Clients, s \in Seqs : applied[c][s] <= 1)
    /\ [][\A p \in Procs :
            (RequestProcessorCapture(p) /\ req[p].Seq <= lastCapturedSeq[req[p].ClientId])
            => /\ pc'[p] = "idle"
               /\ ret'[p] = [new |-> FALSE, err |-> "nil"]
               /\ UNCHANGED <<applied, prepares, clientVars>>]_vars

\* A Request was applied once and an invocation has returned (false, nil).
C2_Witness ==
    /\ \E c \in Clients, s \in Seqs : applied[c][s] = 1 /\ lastReleasedSeq[c] >= s
    /\ \E p \in Procs : pc[p] = "idle" /\ ret[p] = [new |-> FALSE, err |-> "nil"]

\* C3: the request applier of a Request, run in view v, hands exactly one
\* Prepare (v, id, Request) to handleGeneratedUIMessage when id = v mod n and
\* nothing otherwise, and returns nil.
C3_ApplierPrepare ==
    [][\A p \in Procs :
        RequestApplier(p)
        => /\ applyErr'[p] = "nil"
           /\ \A c \in Clients :
                prepares'[c] =
                    IF c = req[p].ClientId /\ id = view % n
                    THEN Append(prepares[c],
                                [View |-> view, ReplicaId |-> id, Request |-> req[p]])
                    ELSE prepares[c]]_vars

\* The applier has run as a primary (a Prepare of view 1 was handed over) and
\* as a backup (a Request was applied and no Prepare carries it).
C3_Witness ==
    /\ \E c \in Clients : \E i \in 1 .. Len(prepares[c]) :
          prepares[c][i].View = 1 /\ prepares[c][i].ReplicaId = id
    /\ \E c \in Clients, s \in Seqs :
          /\ applied[c][s] = 1
          /\ \A i \in 1 .. Len(prepares[c]) : prepares[c][i].Request # Request(c, s)

\* C4: an entry of the operation executor while another invocation is inside
\* consumer.Deliver panics without calling Deliver, and never are two
\* invocations inside Deliver at the same time.
C4_ConcurrentEntryPanics ==
    /\ [](Cardinality({e \in Execs : epc[e] = "deliver"}) <= 1)
    /\ [][\A e \in Execs :
            (OperationExecutorEnter(e) /\ \E e2 \in Execs \ {e} : epc[e2] = "deliver")
            => /\ panicked'
               /\ epc'[e] = "panic"
               /\ delivers' = delivers
               /\ chans' = chans]_vars

\* An invocation has panicked on entry while another one is inside Deliver.
C4_Witness ==
    /\ panicked
    /\ \E e, e2 \in Execs : epc[e] = "panic" /\ epc[e2] = "deliver"
    /\ delivers = 1

\* C5 (as claimed): at most one deliver call is outstanding, a call being
\* outstanding from its invocation until its result is yielded on the channel.
C5_OneOutstandingResult ==
    Cardinality({ch \in chans : ch.state = "pending"}) <= 1

\* C5 (amended): at most one call of consumer.Deliver is in progress at a time,
\* a call being in progress from its invocation until it returns the result
\* channel, and the busy flag is set as long as it is.
C5_OneDeliverInProgress ==
    /\ Cardinality({e \in Execs : epc[e] = "deliver"}) <= 1
    /\ \A e \in Execs : epc[e] = "deliver" => busy = 1

\* Deliver is in progress for an operation while the result of an operation
\* delivered earlier is still pending, and the replica has not panicked.
C5_Witness ==
    /\ ~panicked
    /\ \E e \in Execs :
          /\ epc[e] = "deliver"
          /\ \E ch \in chans : ch.state = "pending" /\ ch.id < echan[e]

\* C6: at most one Reply per (client, seq) is handed to handleGeneratedMessage,
\* and once the consumer has yielded the result of a retired Request its Reply
\* is eventually handed over.
C6_ReplyExactlyOnce ==
    /\ [](\A c \in Clients, s \in Seqs : Len(generated[c][s]) <= 1)
    /\ \A r \in Requests :
          (/\ lastRetiredSeq[r.ClientId] >= r.Seq
           /\ \E ch \in chans : ch.op = r.Payload /\ ch.state = "yielded")
          ~> (Len(generated[r.ClientId][r.Seq]) = 1)

\* The Replies of both Requests of a client have been handed over, once each.
C6_Witness ==
    \E c \in Clients :
        /\ lastRetiredSeq[c] = MaxSeq
        /\ Len(generated[c][1]) = 1
        /\ Len(generated[c][MaxSeq]) = 1

\* C7: a Reply handed over for an executed Request carries this replica's ID,
\* the Request's ClientId and Seq and the result of the Request's payload, and
\* it is signed by the replica over these.
C7_ReplyContent ==
    \A c \in Clients, s \in Seqs : \A i \in 1 .. Len(generated[c][s]) :
        LET reply == generated[c][s][i] IN
        /\ reply.ReplicaId = id
        /\ reply.ClientId = c
        /\ reply.Seq = s
        /\ reply.Result = Result(PayloadOf(c, s))
        /\ reply.Signature = [signer |-> id, msg |-> <<id, c, s, Result(PayloadOf(c, s))>>]

\* A Reply has been handed over for an operation while the result of an
\* operation delivered before it is still pending.
C7_Witness ==
    \E ch1, ch2 \in chans : \E r \in Requests :
        /\ ch1.state = "received" /\ ch2.state = "pending"
        /\ ch2.id < ch1.id
        /\ r.Payload = ch1.op
        /\ Len(generated[r.ClientId][r.Seq]) = 1

\* C8: the view handed to the timeout handler when a timer expires is the view
\* given to requestTimerStarter when that timer was started.
C8_TimeoutCarriesStartView ==
    \A c \in Clients : \A i \in 1 .. Len(timeouts[c]) :
        /\ timeouts[c][i].arm \in 1 .. Len(armed[c])
        /\ timeouts[c][i].view = armed[c][timeouts[c][i].arm]

\* A timer started in view 0 has expired in view 1 and raised its event.
C8_Witness ==
    \E c \in Clients :
        /\ timer[c].state = "expired"
        /\ timer[c].firedIn # timer[c].view
        /\ timeouts[c] # <<>>
        /\ timeouts[c][Len(timeouts[c])].arm = timer[c].arm

\* C9: a timeout event of a client is raised only by the latest start of its
\* timer, carries the view of that start, and is the only event of that start.
C9_RestartReplaces ==
    [][\A c \in Clients :
        timeouts'[c] # timeouts[c]
        => /\ armed[c] # <<>>
           /\ timeouts'[c] = Append(timeouts[c],
                                    [view |-> armed[c][Len(armed[c])],
                                     arm |-> Len(armed[c])])
           /\ \A i \in 1 .. Len(timeouts[c]) : timeouts[c][i].arm # Len(armed[c])]_vars

\* A timer was started again while it was running (its first start neither
\* expired nor was stopped), and the only event raised is that of the restart.
C9_Witness ==
    \E c \in Clients :
        /\ Len(armed[c]) = 2
        /\ stops[c] = {}
        /\ Len(timeouts[c]) = 1
        /\ timeouts[c][1].arm = 2

\* C10: no timeout event is raised for a start of the timer that was running
\* when requestTimerStopper was called, and stopping a timer that is not
\* running changes nothing.
C10_StopPreventsTimeout ==
    /\ [](\A c \in Clients : \A i \in 1 .. Len(timeouts[c]) :
            timeouts[c][i].arm \notin stops[c])
    /\ [][\A c \in Clients :
            (RequestTimerStop(c) /\ timer[c].state # "running")
            => UNCHANGED <<timer, timeouts, armed, stops>>]_vars

\* A running timer was stopped, and a later start of it has expired.
C10_Witness ==
    \E c \in Clients :
        /\ stops[c] = {1}
        /\ timer[c].state = "expired"
        /\ Len(timeouts[c]) = 1
        /\ timeouts[c][1].arm = 2

\* C11 (as claimed): whenever the request applier runs for a new Request, on
\* the primary as on a backup, the request timer of the Request's client is
\* running afterwards, started with the current view.
C11_TimerStartedOnApply ==
    [][\A p \in Procs :
        RequestApplier(p)
        => /\ timer'[req[p].ClientId].state = "running"
           /\ timer'[req[p].ClientId].view = view
           /\ armed'[req[p].ClientId] = Append(armed[req[p].ClientId], view)]_vars

\* C12 (as claimed): on a backup of view 0, once a Request of a client was
\* processed, either the primary sends a Prepare for the client or the client's
\* request timer fires and the timeout handler is invoked with view 0; while
\* no Prepare has come, the handler is invoked at most once for the client.
C12_MissingPrimaryTimeout ==
    \A c \in Clients :
        /\ (\E s \in Seqs : applied[c][s] >= 1)
              ~> (\/ lastPreparedSeq[c] > 0
                  \/ Len(timeouts[c]) = 1 /\ timeouts[c][1].view = 0)
        /\ [](lastPreparedSeq[c] = 0 => Len(timeouts[c]) <= 1)

\* C13: for every client lastCapturedSeq >= lastPreparedSeq >= lastRetiredSeq
\* in every state, none of the three ever decreases, and no request ID gets
\* new = true twice from captureSeq, twice from requestSeqPreparer or twice
\* from requestSeqRetirer.
C13_SeqInvariants ==
    /\ [](\A c \in Clients :
            /\ lastCapturedSeq[c] >= lastPreparedSeq[c]
            /\ lastPreparedSeq[c] >= lastRetiredSeq[c])
    /\ [][\A c \in Clients :
            /\ lastCapturedSeq'[c] >= lastCapturedSeq[c]
            /\ lastPreparedSeq'[c] >= lastPreparedSeq[c]
            /\ lastRetiredSeq'[c] >= lastRetiredSeq[c]]_vars
    /\ [](\A c \in Clients : \A kind \in {"captured", "prepared", "retired"} :
            \A i, j \in 1 .. Len(seqLog[c][kind]) :
                i # j => seqLog[c][kind][i] # seqLog[c][kind][j])

\* Two request IDs of a client went through capture, prepare and retire, while
\* another client has a request ID captured beyond its prepared one and one
\* prepared beyond its retired one.
C13_Witness ==
    /\ ~panicked
    /\ \E c \in Clients :
          /\ Len(seqLog[c].captured) = 2
          /\ Len(seqLog[c].prepared) = 2
          /\ Len(seqLog[c].retired) = 2
    /\ \E c \in Clients :
          /\ lastCapturedSeq[c] > lastPreparedSeq[c]
          /\ lastPreparedSeq[c] > lastRetiredSeq[c]

\* C14: for every client the request IDs for which requestSeqRetirer returned
\* true are strictly increasing in the order of the calls; requestSeqRetirer
\* returns false for a prepared request ID that is not greater than
\* lastRetiredSeq, and such a call changes nothing.
C14_RetiredIncreasing ==
    /\ [](\A c \in Clients : \A i, j \in 1 .. Len(seqLog[c].retired) :
            i < j => seqLog[c].retired[i] < seqLog[c].retired[j])
    /\ [](\A c \in Clients, s \in Seqs :
            (s <= lastPreparedSeq[c] /\ s <= lastRetiredSeq[c])
            => RequestSeqRetirer(c, s) = "false")
    /\ [][\A c \in Clients, s \in Seqs :
            (RetireCall(c, s) /\ s <= lastPreparedSeq[c] /\ s <= lastRetiredSeq[c])
            => UNCHANGED vars]_vars

\* A client has retired request IDs 1 and 2 in turn; another one has retired
\* request ID 2 only, so that a retire call for its prepared request ID 1 comes
\* too late.
C14_Witness ==
    /\ ~panicked
    /\ \E c \in Clients : seqLog[c].retired = <<1, 2>>
    /\ \E c \in Clients : seqLog[c].retired = <<2>> /\ lastPreparedSeq[c] >= 2

\* C15: a call of requestSeqPreparer for a request ID beyond the last captured
\* one, and a call of requestSeqRetirer for a request ID beyond the last
\* prepared one, can only end in a panic, with lastPreparedSeq, lastRetiredSeq
\* and the calls that returned new = true as they were.
C15_PreconditionPanics ==
    \A c \in Clients, s \in Seqs :
        /\ (~panicked /\ s > lastCapturedSeq[c])
           => /\ ENABLED PrepareCall(c, s)
              /\ ~ENABLED (/\ PrepareCall(c, s)
                           /\ ~(/\ panicked'
                                /\ lastPreparedSeq' = lastPreparedSeq
                                /\ seqLog' = seqLog))
        /\ (~panicked /\ s > lastPreparedSeq[c])
           => /\ ENABLED RetireCall(c, s)
              /\ ~ENABLED (/\ RetireCall(c, s)
                           /\ ~(/\ panicked'
                                /\ lastRetiredSeq' = lastRetiredSeq
                                /\ seqLog' = seqLog))

\* The replica has panicked on a call that came too early, after request IDs
\* of a client were captured, prepared and retired in order.
C15_Witness ==
    /\ panicked
    /\ \E c \in Clients :
          /\ seqLog[c].captured # <<>>
          /\ seqLog[c].prepared # <<>>
          /\ seqLog[c].retired # <<>>
          /\ lastPreparedSeq[c] < MaxSeq

\* C16: an invocation of requestProcessor that is at captureSeq while no
\* invocation holds a capture of its own client can take its step, whatever
\* captures are held for other clients, and the step can only end as the
\* client's own lastCapturedSeq says: past capture for a greater request ID,
\* returned (false, nil) otherwise.
C16_ClientsIndependent ==
    \A p \in Procs :
        (/\ pc[p] = "capture"
         /\ \A q \in Procs : held[q] => req[q].ClientId # req[p].ClientId)
        => /\ ENABLED RequestProcessorCapture(p)
           /\ ~ENABLED (/\ RequestProcessorCapture(p)
                        /\ ~(IF req[p].Seq > lastCapturedSeq[req[p].ClientId]
                             THEN pc'[p] = "apply" /\ held'[p]
                             ELSE /\ pc'[p] = "idle"
                                  /\ ret'[p] = [new |-> FALSE, err |-> "nil"]))

\* Invocations for two different clients hold their captures at the same time,
\* both inside the request applier.
C16_Witness ==
    \E p, q \in Procs :
        /\ req[p].ClientId # req[q].ClientId
        /\ held[p] /\ pc[p] = "apply"
        /\ held[q] /\ pc[q] = "apply"

\* C17: when the request applier has returned an error, requestProcessor
\* returns (false, error) and its return invokes the release function of the
\* capture, once, leaving lastCapturedSeq as it is; the applier never runs twice
\* for a (client, seq), and an invocation with a request ID that is not greater
\* than lastCapturedSeq returns (false, nil) without running the applier.
C17_ApplierError ==
    /\ [][\A p \in Procs :
            (RequestProcessorReturn(p) /\ applyErr[p] = "error")
            => /\ ret'[p] = [new |-> FALSE, err |-> "error"]
               /\ pc'[p] = "idle" /\ ~held'[p]
               /\ lastReleasedSeq'[req[p].ClientId] = req[p].Seq
               /\ seqLog'[req[p].ClientId].released =
                      Append(seqLog[req[p].ClientId].released, req[p].Seq)
               /\ lastCapturedSeq' = lastCapturedSeq]_vars
    /\ [](\A c \in Clients, s \in Seqs : applied[c][s] <= 1)
    /\ [](\A c \in Clients : \A i, j \in 1 .. Len(seqLog[c].released) :
            i # j => seqLog[c].released[i] # seqLog[c].released[j])
    /\ [][\A p \in Procs :
            (RequestProcessorCapture(p) /\ req[p].Seq <= lastCapturedSeq[req[p].ClientId])
            => /\ ret'[p] = [new |-> FALSE, err |-> "nil"]
               /\ pc'[p] = "idle"
               /\ applied' = applied]_vars

\* The applier has failed for request ID 1 of a client and the invocation has
\* returned (false, error) and released it; the only other invocation there
\* was, one with the same request ID, has returned (false, nil).
C17_Witness ==
    \E c \in Clients : \E p, q \in Procs :
        /\ p # q
        /\ \A d \in Clients, s \in Seqs : applied[d][s] = IF d = c /\ s = 1 THEN 1 ELSE 0
        /\ \A d \in Clients : seqLog[d].captured = IF d = c THEN <<1>> ELSE <<>>
        /\ seqLog[c].released = <<1>>
        /\ lastCapturedSeq[c] = 1
        /\ pc[p] = "idle" /\ ret[p] = [new |-> FALSE, err |-> "error"]
        /\ pc[q] = "idle" /\ ret[q] = [new |-> FALSE, err |-> "nil"]

\* C18: the Prepares handed to handleGeneratedUIMessage for the Requests of a
\* client carry strictly increasing request IDs, each of them one for which
\* captureSeq returned new = true, and an invocation whose request ID is below
\* the client's last captured one returns without a Prepare.
C18_PreparesInSeqOrder ==
    /\ [](\A c \in Clients : \A i, j \in 1 .. Len(prepares[c]) :
            i < j => prepares[c][i].Request.Seq < prepares[c][j].Request.Seq)
    /\ [](\A c \in Clients : \A i \in 1 .. Len(prepares[c]) :
            /\ prepares[c][i].Request.ClientId = c
            /\ \E k \in 1 .. Len(seqLog[c].captured) :
                  seqLog[c].captured[k] = prepares[c][i].Request.Seq)
    /\ [][\A p \in Procs :
            (RequestProcessorCapture(p) /\ req[p].Seq < lastCapturedSeq[req[p].ClientId])
            => /\ pc'[p] = "idle"
               /\ prepares' = prepares]_vars

\* As the primary, the replica has handed over the Prepares of request IDs 1
\* and 2 of a client, in this order, and for another client the Prepare of
\* request ID 2 only, an invocation having returned (false, nil) since.
C18_Witness ==
    /\ \E c \in Clients :
          /\ Len(prepares[c]) = 2
          /\ prepares[c][1].Request.Seq = 1
          /\ prepares[c][2].Request.Seq = 2
    /\ \E c \in Clients :
          /\ Len(prepares[c]) = 1
          /\ prepares[c][1].Request.Seq = 2
          /\ lastCapturedSeq[c] = 2 /\ lastReleasedSeq[c] = 2
    /\ \E p \in Procs : pc[p] = "idle" /\ ret[p] = [new |-> FALSE, err |-> "nil"]

C20_ClearOutsideDeliver ==
    /\ ~panicked
    /\ (\A e \in Execs : epc[e] # "deliver") => busy = 0

\* C20 (amended): when the request executor is invoked one invocation at a
\* time the replica never panics, and the busy flag is set exactly while an
\* invocation is inside the operation executor, from its swap of the flag to
\* the store that follows the return of Deliver: otherwise it is clear,
\* whatever results are pending, yielded or received.
C20_SequentialNeverPanics ==
    /\ ~panicked
    /\ \A e \in Execs : epc[e] # "panic"
    /\ busy = (IF \E e \in Execs : epc[e] \in {"deliver", "store"} THEN 1 ELSE 0)

\* A third invocation is about to enter the operation executor, the flag being
\* clear, while the result of the first operation is still pending and that
\* of the second one was received.
C20_Witness ==
    /\ busy = 0
    /\ delivers = 2
    /\ \E e \in Execs : epc[e] = "enter"
    /\ \E ch1, ch2 \in chans :
          /\ ch1.id = 1 /\ ch1.state = "pending"
          /\ ch2.id = 2 /\ ch2.state = "received"

====
